---- MODULE Spec2Model ----
(***************************************************************************)
(* Model of src/src/agent.py: the module's top-level statements (dotenv,   *)
(* MODE, prewarm registration, entrypoint registration, run_app), the      *)
(* prewarm function, the job entrypoint and the agent's on_enter hook.     *)
(* Text is a sequence of one-character strings so that str.lower() is a    *)
(* real conversion.  Objects are numbered in allocation order.             *)
(***************************************************************************)
EXTENDS Integers, Sequences, FiniteSets, TLC

\* ------------------------------------------------------------------ bounds
\* Number of jobs the runtime dispatches to the worker process.
MaxJobs == 2

Jobs == 1..MaxJobs

\* ------------------------------------------------------------------ text
UpperLetters == <<"A", "U", "D", "I", "O", "T", "E", "X">>
LowerLetters == <<"a", "u", "d", "i", "o", "t", "e", "x">>

LowerChar(c) ==
    IF \E i \in 1..Len(UpperLetters) : UpperLetters[i] = c
    THEN LowerLetters[CHOOSE i \in 1..Len(UpperLetters) : UpperLetters[i] = c]
    ELSE c

lowerIdentity(s) == s

\* str.lower()
lower(s) == [i \in 1..Len(s) |-> LowerChar(s[i])]

audio == <<"a", "u", "d", "i", "o">>
text == <<"t", "e", "x", "t">>

\* ------------------------------------------------------------------ environment
EmptyMap == [k \in {} |-> <<>>]

\* dict union in which the entries of f win
Merge(f, g) ==
    [k \in (DOMAIN f) \cup (DOMAIN g) |-> IF k \in DOMAIN f THEN f[k] ELSE g[k]]

Entry(k, v) == [x \in {k} |-> v]

\* Values of AGENT_MODE in the process environment.
ModeFlags ==
    { <<>>,
      <<"T", "E", "X", "T">>,
      <<"b", "o", "g", "u", "s">>,
      <<"a", "u", "d", "i", "o">>,
      <<"A", "u", "d", "i", "o">>,
      <<"A", "U", "D", "I", "O">>,
      <<"a", "u", "d", "i", "o", " ">> }

\* Values of AGENT_MODE in .env.local.
FileModeFlags == { <<"a", "U", "d", "I", "o">> }

ApiKeys == { <<"f", "c", "-", "1">> }

EnvMaps(modes, keys) ==
    { Merge(m, k) :
        m \in {EmptyMap} \cup { Entry("AGENT_MODE", v) : v \in modes },
        k \in {EmptyMap} \cup { Entry("FIRECRAWL_API_KEY", v) : v \in keys } }

\* os.getenv(name, default)
getenv(env, name, default) == IF name \in DOMAIN env THEN env[name] ELSE default

\* load_dotenv(path): variables already set in the environment are kept
load_dotenv(env, file) == Merge(env, file)

\* MODE = os.getenv("AGENT_MODE", "text").lower()
ResolveMODE(env) == lower(getenv(env, "AGENT_MODE", text))

\* f"{os.getenv('FIRECRAWL_API_KEY')}": an unset variable formats as None
FormatKey(env) ==
    IF "FIRECRAWL_API_KEY" \in DOMAIN env
    THEN env["FIRECRAWL_API_KEY"]
    ELSE <<"N", "o", "n", "e">>

McpUrl(env) == <<"https://mcp.firecrawl.dev/", FormatKey(env), "/v2/mcp">>

\* ------------------------------------------------------------------ state
VARIABLES
    environ,        \* os.environ
    main,           \* next top-level statement of the module
    MODE,           \* the module global MODE
    setup_fnc,      \* server.setup_fnc
    rtc_session,    \* the entrypoint registered on the server
    proc,           \* the worker process as the runtime sees it
    vadLoad,        \* outcome of silero.VAD.load()
    setupRaised,    \* an exception left setup_fnc
    prewarmCalls,   \* invocations of prewarm
    userdata,       \* proc.userdata
    nextId,         \* next object identity
    status,         \* per job: unstarted, running, joined, active, failed
    ip,             \* per job: index of the next entrypoint statement
    log,            \* per job: the startup steps taken, in order
    session,        \* per job: the AgentSession built by the entrypoint
    agent,          \* per job: the DefaultAgent built by the entrypoint
    room_options,   \* per job: the RoomOptions passed to session.start
    greetings,      \* per job: generate_reply calls made by on_enter
    selection       \* last call of the noise_cancellation lambda

vars ==
    <<environ, main, MODE, setup_fnc, rtc_session, proc, vadLoad,
      setupRaised, prewarmCalls, userdata, nextId, status, ip, log, session,
      agent, room_options, greetings, selection>>

mainVars == <<environ, main, MODE, setup_fnc, rtc_session>>
procVars == <<proc, vadLoad, setupRaised, prewarmCalls, userdata>>
jobVars == <<status, ip, log, session, agent, room_options, greetings>>

Unset == <<"unset">>
EmptyUserdata == [k \in {} |-> 0]

NoSession == [id |-> 0, stages |-> EmptyMap, preemptive_generation |-> FALSE]
NoAgent == [id |-> 0, mcp_server |-> 0, url |-> <<>>]
NoOptions == [given |-> FALSE, audio_input |-> TRUE, audio_output |-> TRUE,
              noise_cancellation |-> FALSE]
NoSelection == [kind |-> "none", strategy |-> "none"]

Init ==
    /\ environ \in EnvMaps(ModeFlags, ApiKeys)
    /\ main = "load_dotenv"
    /\ MODE = Unset
    /\ setup_fnc = "none"
    /\ rtc_session = "none"
    /\ proc = "none"
    /\ vadLoad = "none"
    /\ setupRaised = FALSE
    /\ prewarmCalls = 0
    /\ userdata = EmptyUserdata
    /\ nextId = 1
    /\ status = [j \in Jobs |-> "unstarted"]
    /\ ip = [j \in Jobs |-> 0]
    /\ log = [j \in Jobs |-> <<>>]
    /\ session = [j \in Jobs |-> NoSession]
    /\ agent = [j \in Jobs |-> NoAgent]
    /\ room_options = [j \in Jobs |-> NoOptions]
    /\ greetings = [j \in Jobs |-> 0]
    /\ selection = NoSelection

\* ------------------------------------------------------------------ module top level
\* load_dotenv(".env.local"); `file` is what .env.local holds
LoadDotenv ==
    /\ main = "load_dotenv"
    /\ \E file \in EnvMaps(FileModeFlags, ApiKeys) :
         environ' = load_dotenv(environ, file)
    /\ main' = "MODE"
    /\ UNCHANGED <<MODE, setup_fnc, rtc_session, nextId, selection>>
    /\ UNCHANGED procVars
    /\ UNCHANGED jobVars

\* MODE = os.getenv("AGENT_MODE", "text").lower()
AssignMODE ==
    /\ main = "MODE"
    /\ MODE' = ResolveMODE(environ)
    /\ main' = "setup_fnc"
    /\ UNCHANGED <<environ, setup_fnc, rtc_session, nextId, selection>>
    /\ UNCHANGED procVars
    /\ UNCHANGED jobVars

SetupFncNever(mode) == "none"

SetupFncAlways(mode) == "prewarm"

\* if MODE == "audio": server.setup_fnc = prewarm
SetupFncFor(mode) == IF mode = audio THEN "prewarm" ELSE "none"

RegisterSetupFnc ==
    /\ main = "setup_fnc"
    /\ setup_fnc' = SetupFncFor(MODE)
    /\ main' = "rtc_session"
    /\ UNCHANGED <<environ, MODE, rtc_session, nextId, selection>>
    /\ UNCHANGED procVars
    /\ UNCHANGED jobVars

\* @server.rtc_session(agent_name="rias")
RegisterEntrypoint ==
    /\ main = "rtc_session"
    /\ rtc_session' = "entrypoint"
    /\ main' = "run_app"
    /\ UNCHANGED <<environ, MODE, setup_fnc, nextId, selection>>
    /\ UNCHANGED procVars
    /\ UNCHANGED jobVars

\* cli.run_app(server)
RunApp ==
    /\ main = "run_app"
    /\ main' = "running"
    /\ proc' = "created"
    /\ UNCHANGED <<environ, MODE, setup_fnc, rtc_session, nextId, selection>>
    /\ UNCHANGED <<vadLoad, setupRaised, prewarmCalls, userdata>>
    /\ UNCHANGED jobVars

\* ------------------------------------------------------------------ prewarm
prewarmSwallow(ud, loaded, handle) ==
    IF loaded
    THEN [userdata |-> Merge(Entry("vad", handle), ud), raised |-> FALSE]
    ELSE [userdata |-> ud, raised |-> FALSE]

\* proc.userdata["vad"] = silero.VAD.load(); `loaded` is whether load() returned
prewarm(ud, loaded, handle) ==
    IF loaded
    THEN [userdata |-> Merge(Entry("vad", handle), ud), raised |-> FALSE]
    ELSE [userdata |-> ud, raised |-> TRUE]

\* The runtime initializes the worker process: it calls setup_fnc, if one is
\* set, once, and offers the process for jobs only if the call returned.
InitializeProcess ==
    /\ main = "running"
    /\ proc = "created"
    /\ IF setup_fnc = "prewarm"
       THEN \E loaded \in BOOLEAN :
              LET r == prewarm(userdata, loaded, nextId) IN
              /\ userdata' = r.userdata
              /\ setupRaised' = r.raised
              /\ proc' = IF r.raised THEN "failed" ELSE "ready"
              /\ vadLoad' = IF loaded THEN "ok" ELSE "failed"
              /\ nextId' = IF loaded THEN nextId + 1 ELSE nextId
              /\ prewarmCalls' = prewarmCalls + 1
       ELSE /\ proc' = "ready"
            /\ UNCHANGED <<userdata, setupRaised, vadLoad, nextId, prewarmCalls>>
    /\ UNCHANGED selection
    /\ UNCHANGED mainVars
    /\ UNCHANGED jobVars

\* ------------------------------------------------------------------ entrypoint
\* if MODE == "audio": ... else: ...   (the branch entrypoint takes)
EntrypointBranch(mode) == IF mode = audio THEN "audio" ELSE "text"

\* AgentSession(stt=..., llm=..., tts=..., turn_detection=..., vad=..., preemptive_generation=True)
AudioSession(id, vad) ==
    [id |-> id,
     stages |-> [k \in {"stt", "llm", "tts", "turn_detection", "vad"} |->
                   CASE k = "stt" -> <<"deepgram/nova-2", "en-IN">>
                     [] k = "llm" -> <<"openai/gpt-4.1-nano">>
                     [] k = "tts" -> <<"deepgram/aura", "luna", "en">>
                     [] k = "turn_detection" -> <<"MultilingualModel">>
                     [] k = "vad" -> <<vad>>],
     preemptive_generation |-> TRUE]

\* AgentSession(llm=...)
TextSession(id) ==
    [id |-> id,
     stages |-> Entry("llm", <<"openai/gpt-4.1-nano">>),
     preemptive_generation |-> FALSE]

SharedDefaultAgent(id, env) ==
    [id |-> -1, mcp_server |-> -2, url |-> McpUrl(env)]

\* DefaultAgent(): a new agent holding a new MCPServerHTTP in a new list
DefaultAgent(id, env) ==
    [id |-> id, mcp_server |-> id + 1, url |-> McpUrl(env)]

\* RoomOptions(audio_input=AudioInputOptions(noise_cancellation=lambda ...))
AudioRoomOptions ==
    [given |-> TRUE, audio_input |-> TRUE, audio_output |-> TRUE,
     noise_cancellation |-> TRUE]

TextRoomOptionsAudioOut ==
    [given |-> TRUE, audio_input |-> FALSE, audio_output |-> TRUE,
     noise_cancellation |-> FALSE]

\* RoomOptions(audio_input=False, audio_output=False)
TextRoomOptions ==
    [given |-> TRUE, audio_input |-> FALSE, audio_output |-> FALSE,
     noise_cancellation |-> FALSE]

ParticipantKinds == {"STANDARD", "INGRESS", "EGRESS", "SIP", "AGENT"}

NoiseCancellationSwapped(kind) == IF kind = "SIP" THEN "BVC" ELSE "BVCTelephony"

\* lambda params: BVCTelephony() if params.participant.kind == PARTICIPANT_KIND_SIP else BVC()
NoiseCancellation(kind) == IF kind = "SIP" THEN "BVCTelephony" ELSE "BVC"

EntrypointOrderPersonaFirst == <<"DefaultAgent", "AgentSession", "RoomOptions", "start">>

\* The order in which entrypoint evaluates its statements and the arguments
\* of session.start, in either branch.
EntrypointOrder == <<"AgentSession", "DefaultAgent", "RoomOptions", "start">>

Statement(j) ==
    IF status[j] = "running" /\ ip[j] \in 1..Len(EntrypointOrder)
    THEN EntrypointOrder[ip[j]]
    ELSE "none"

\* The runtime offers jobs to a process whose initialization returned.
JobOffered(j) == proc = "ready" /\ status[j] = "unstarted"

\* The runtime accepts a job and calls the registered entrypoint.
AcceptJob(j) ==
    /\ JobOffered(j)
    /\ rtc_session = "entrypoint"
    /\ status' = [status EXCEPT ![j] = "running"]
    /\ ip' = [ip EXCEPT ![j] = 1]
    /\ UNCHANGED <<log, session, agent, room_options, greetings>>
    /\ UNCHANGED <<nextId, selection>>
    /\ UNCHANGED mainVars
    /\ UNCHANGED procVars

\* session = AgentSession(...); the audio branch reads userdata["vad"], which
\* raises KeyError when the key is missing
ConstructSession(j) ==
    /\ Statement(j) = "AgentSession"
    /\ log' = [log EXCEPT ![j] = Append(@, "AgentSession")]
    /\ IF EntrypointBranch(MODE) = "audio"
       THEN IF "vad" \in DOMAIN userdata
            THEN /\ session' = [session EXCEPT ![j] = AudioSession(nextId, userdata["vad"])]
                 /\ nextId' = nextId + 1
                 /\ ip' = [ip EXCEPT ![j] = @ + 1]
                 /\ UNCHANGED status
            ELSE /\ status' = [status EXCEPT ![j] = "failed"]
                 /\ UNCHANGED <<session, nextId, ip>>
       ELSE /\ session' = [session EXCEPT ![j] = TextSession(nextId)]
            /\ nextId' = nextId + 1
            /\ ip' = [ip EXCEPT ![j] = @ + 1]
            /\ UNCHANGED status
    /\ UNCHANGED <<agent, room_options, greetings>>
    /\ UNCHANGED selection
    /\ UNCHANGED mainVars
    /\ UNCHANGED procVars

\* agent=DefaultAgent()
InstantiateAgent(j) ==
    /\ Statement(j) = "DefaultAgent"
    /\ log' = [log EXCEPT ![j] = Append(@, "DefaultAgent")]
    /\ agent' = [agent EXCEPT ![j] = DefaultAgent(nextId, environ)]
    /\ nextId' = nextId + 2
    /\ ip' = [ip EXCEPT ![j] = @ + 1]
    /\ UNCHANGED <<status, session, room_options, greetings>>
    /\ UNCHANGED selection
    /\ UNCHANGED mainVars
    /\ UNCHANGED procVars

\* room_options=room_io.RoomOptions(...)
BuildRoomOptions(j) ==
    /\ Statement(j) = "RoomOptions"
    /\ log' = [log EXCEPT ![j] = Append(@, "RoomOptions")]
    /\ room_options' = [room_options EXCEPT ![j] =
                          IF EntrypointBranch(MODE) = "audio"
                          THEN AudioRoomOptions
                          ELSE TextRoomOptions]
    /\ ip' = [ip EXCEPT ![j] = @ + 1]
    /\ UNCHANGED <<status, session, agent, greetings>>
    /\ UNCHANGED <<nextId, selection>>
    /\ UNCHANGED mainVars
    /\ UNCHANGED procVars

\* await session.start(agent=..., room=ctx.room, room_options=...)
StartSession(j) ==
    /\ Statement(j) = "start"
    /\ log' = [log EXCEPT ![j] = Append(@, "start")]
    /\ status' = [status EXCEPT ![j] = "joined"]
    /\ ip' = [ip EXCEPT ![j] = @ + 1]
    /\ UNCHANGED <<session, agent, room_options, greetings>>
    /\ UNCHANGED <<nextId, selection>>
    /\ UNCHANGED mainVars
    /\ UNCHANGED procVars

\* ------------------------------------------------------------------ on_enter
OnEnterAlwaysGreets(mode) == TRUE

\* if MODE == "audio": await self.session.generate_reply(...)
OnEnterGreets(mode) == mode = audio

\* The started session calls the agent's on_enter hook once.
OnEnterDue(j) == status[j] = "joined"

\* DefaultAgent.on_enter
OnEnter(j) ==
    /\ OnEnterDue(j)
    /\ log' = [log EXCEPT ![j] = Append(@, "on_enter")]
    /\ greetings' = [greetings EXCEPT ![j] = IF OnEnterGreets(MODE) THEN @ + 1 ELSE @]
    /\ status' = [status EXCEPT ![j] = "active"]
    /\ UNCHANGED <<ip, session, agent, room_options>>
    /\ UNCHANGED <<nextId, selection>>
    /\ UNCHANGED mainVars
    /\ UNCHANGED procVars

\* ------------------------------------------------------------------ noise cancellation
\* A started session with audio input calls the installed lambda whenever
\* a participant's audio is attached.
SelectorDue(j) ==
    /\ status[j] \in {"joined", "active"}
    /\ room_options[j].given
    /\ room_options[j].audio_input
    /\ room_options[j].noise_cancellation

\* noise_cancellation=lambda params: ...
SelectNoiseCancellation(j, kind) ==
    /\ SelectorDue(j)
    /\ selection' = [kind |-> kind, strategy |-> NoiseCancellation(kind)]
    /\ UNCHANGED nextId
    /\ UNCHANGED mainVars
    /\ UNCHANGED procVars
    /\ UNCHANGED jobVars

\* ------------------------------------------------------------------ specification
Next ==
    \/ LoadDotenv
    \/ AssignMODE
    \/ RegisterSetupFnc
    \/ RegisterEntrypoint
    \/ RunApp
    \/ InitializeProcess
    \/ \E j \in Jobs : AcceptJob(j)
    \/ \E j \in Jobs : ConstructSession(j)
    \/ \E j \in Jobs : InstantiateAgent(j)
    \/ \E j \in Jobs : BuildRoomOptions(j)
    \/ \E j \in Jobs : StartSession(j)
    \/ \E j \in Jobs : OnEnter(j)
    \/ \E j \in Jobs, kind \in ParticipantKinds : SelectNoiseCancellation(j, kind)

Spec == Init /\ [][Next]_vars

\* ------------------------------------------------------------------ properties
\* The AGENT_MODE variable is set and spells "audio" in some letter casing.
FlagIsAudioAnyCase ==
    /\ "AGENT_MODE" \in DOMAIN environ
    /\ LET f == environ["AGENT_MODE"] IN
       /\ Len(f) = 5
       /\ f[1] \in {"a", "A"}
       /\ f[2] \in {"u", "U"}
       /\ f[3] \in {"d", "D"}
       /\ f[4] \in {"i", "I"}
       /\ f[5] \in {"o", "O"}

FiveStages == {"stt", "llm", "tts", "vad", "turn_detection"}

Built(j) == session[j].id # 0

Started(j) == status[j] \in {"joined", "active"}

IsPrefix(s, t) == Len(s) <= Len(t) /\ \A i \in 1..Len(s) : s[i] = t[i]

Owned(j) == {session[j].id, agent[j].id, agent[j].mcp_server} \ {0}

\* C1: whenever AGENT_MODE is not "audio" in some casing (unset, "", "TEXT",
\* "bogus", "audio "), every session a job builds has the language model as
\* its only stage, and every session a job starts is started with audio
\* input and audio output both disabled.
C1_TextPipeline ==
    (main # "load_dotenv" /\ ~FlagIsAudioAnyCase) =>
        \A j \in Jobs :
            /\ Built(j) => DOMAIN session[j].stages = {"llm"}
            /\ Built(j) => ~session[j].preemptive_generation
            /\ Started(j) =>
                 /\ Built(j)
                 /\ room_options[j].given
                 /\ ~room_options[j].audio_input
                 /\ ~room_options[j].audio_output

C1_Witness ==
    /\ "AGENT_MODE" \notin DOMAIN environ
    /\ \E j \in Jobs : Started(j) /\ Built(j) /\ ~room_options[j].audio_output

\* C2: whenever AGENT_MODE spells "audio" in any casing, every job that has
\* passed the construction of its session holds a session with all five
\* stages, the vad stage being the prewarmed userdata["vad"], and with
\* preemptive generation on; and in every mode a built session has either
\* the language model alone or all five stages.
C2_AudioPipeline ==
    /\ \A j \in Jobs :
         Built(j) => DOMAIN session[j].stages \in {{"llm"}, FiveStages}
    /\ (main # "load_dotenv" /\ FlagIsAudioAnyCase) =>
         \A j \in Jobs :
            /\ "AgentSession" \in {log[j][i] : i \in 1..Len(log[j])} => Built(j)
            /\ Built(j) =>
                 /\ DOMAIN session[j].stages = FiveStages
                 /\ "vad" \in DOMAIN userdata
                 /\ session[j].stages["vad"] = <<userdata["vad"]>>
                 /\ session[j].preemptive_generation

C2_Witness ==
    /\ "AGENT_MODE" \in DOMAIN environ
    /\ environ["AGENT_MODE"] = <<"A", "U", "D", "I", "O">>
    /\ \A j \in Jobs : Started(j) /\ DOMAIN session[j].stages = FiveStages

\* C3: prewarm is invoked at most once, and in AUDIO mode a job reaches the
\* construction of its session (the read of userdata["vad"]) only after the
\* one invocation of prewarm has completed and stored the detector.
C3_PrewarmOnceBeforeAssembly ==
    /\ prewarmCalls <= 1
    /\ \A j \in Jobs :
         (MODE = audio /\ Len(log[j]) > 0) =>
            /\ prewarmCalls = 1
            /\ vadLoad = "ok"
            /\ "vad" \in DOMAIN userdata

C3_Witness ==
    /\ MODE = audio
    /\ prewarmCalls = 1
    /\ \A j \in Jobs : Len(log[j]) > 0

\* C4: while any job is being processed, userdata holds the key "vad" if and
\* only if MODE is "audio".
C4_VadIffAudio ==
    \A j \in Jobs :
        status[j] # "unstarted" => (("vad" \in DOMAIN userdata) <=> (MODE = audio))

C4_Witness ==
    /\ MODE = text
    /\ "vad" \notin DOMAIN userdata
    /\ \E j \in Jobs : status[j] = "active"

\* C5: a job makes no greeting call in TEXT mode and exactly one in AUDIO
\* mode, made by on_enter; a job that has greeted runs a session started
\* with audio input and output enabled.
C5_GreetingIffAudio ==
    \A j \in Jobs :
        /\ greetings[j] <= 1
        /\ MODE # audio => greetings[j] = 0
        /\ status[j] # "active" => greetings[j] = 0
        /\ status[j] = "active" => greetings[j] = (IF MODE = audio THEN 1 ELSE 0)
        /\ greetings[j] > 0 =>
             /\ room_options[j].given
             /\ room_options[j].audio_input
             /\ room_options[j].audio_output

C5_Witness ==
    /\ MODE = audio
    /\ \A j \in Jobs : status[j] = "active" /\ greetings[j] = 1

\* C6 (as claimed): with FIRECRAWL_API_KEY unset after the dotenv file is
\* loaded, no entrypoint is registered, no job is accepted and no agent is
\* built from the missing credential.
C6_AbortsWithoutCredential ==
    (main # "load_dotenv" /\ "FIRECRAWL_API_KEY" \notin DOMAIN environ) =>
        /\ rtc_session = "none"
        /\ \A j \in Jobs : status[j] = "unstarted" /\ agent[j].id = 0

\* The state part of C7: the last call's result follows the participant kind
\* alone, and the lambda is installed exactly in AUDIO mode.
C7_SelectorInv ==
    /\ selection # NoSelection =>
         /\ (selection.kind = "SIP") => selection.strategy = "BVCTelephony"
         /\ (selection.kind # "SIP") => selection.strategy = "BVC"
         /\ MODE = audio
         /\ \E j \in Jobs : Started(j) /\ room_options[j].audio_input
    /\ \A j \in Jobs :
         room_options[j].given => (room_options[j].noise_cancellation <=> MODE = audio)

\* C7: every call of the noise-cancellation lambda returns BVCTelephony for
\* a SIP participant and BVC for any other kind, changes nothing else, and
\* the lambda is installed exactly on the room options of AUDIO mode.
C7_Selector ==
    /\ []C7_SelectorInv
    /\ [][selection' # selection =>
            UNCHANGED <<environ, main, MODE, setup_fnc, rtc_session, proc,
                        vadLoad, setupRaised, prewarmCalls, userdata, nextId,
                        status, ip, log, session, agent, room_options, greetings>>]_vars

C7_Witness ==
    /\ selection.kind = "SIP"
    /\ selection.strategy = "BVCTelephony"
    /\ \E j \in Jobs : status[j] = "active"

\* C8 (as claimed): the steps of a job's startup are taken in the order
\* persona, session, room options, start, on_enter.
C8_SpecOrder ==
    \A j \in Jobs :
        IsPrefix(log[j], <<"DefaultAgent", "AgentSession", "RoomOptions", "start", "on_enter">>)

\* C8 (amended): the steps of a job's startup are taken in the order
\* session, persona, room options, start, on_enter, and an active job has
\* taken all five.
C8_CodeOrder ==
    \A j \in Jobs :
        /\ IsPrefix(log[j], <<"AgentSession", "DefaultAgent", "RoomOptions", "start", "on_enter">>)
        /\ Len(log[j]) >= 1 /\ status[j] # "failed" => Built(j)
        /\ Len(log[j]) >= 2 => agent[j].id # 0
        /\ Len(log[j]) >= 3 => room_options[j].given
        /\ Len(log[j]) >= 4 => Started(j)
        /\ status[j] = "active" <=> Len(log[j]) = 5

C8_Witness ==
    \E j \in Jobs : status[j] = "active" /\ Len(log[j]) = 5

\* The state part of C9: the objects of two jobs are disjoint and fresh.
C9_IsolationInv ==
    /\ \A i, j \in Jobs : i # j => Owned(i) \cap Owned(j) = {}
    /\ \A j \in Jobs :
         /\ Cardinality(Owned(j)) =
              (IF Built(j) THEN 1 ELSE 0) + (IF agent[j].id # 0 THEN 2 ELSE 0)
         /\ "vad" \in DOMAIN userdata => userdata["vad"] \notin Owned(j)

\* C9: two jobs never hold the same session, agent or tool-source object,
\* none of these is the shared detector, and once the process is ready no
\* step writes userdata or MODE.
C9_Isolation ==
    /\ []C9_IsolationInv
    /\ [][proc = "ready" => (userdata' = userdata /\ MODE' = MODE)]_vars

C9_Witness ==
    /\ \A j \in Jobs : status[j] = "running" /\ Built(j) /\ agent[j].id # 0
    /\ "vad" \in DOMAIN userdata

\* C10: once loading the detector has failed, the exception has left
\* prewarm, userdata has no "vad", the process is not offered for jobs, and
\* no job has been accepted, started or greeted.
C10_FailedPrewarmStopsWorker ==
    vadLoad = "failed" =>
        /\ setupRaised
        /\ "vad" \notin DOMAIN userdata
        /\ proc = "failed"
        /\ \A j \in Jobs :
             status[j] = "unstarted" /\ Len(log[j]) = 0 /\ greetings[j] = 0

C10_Witness ==
    /\ vadLoad = "failed"
    /\ MODE = audio
    /\ prewarmCalls = 1

====
